---- MODULE Spec2Model ----
(***************************************************************************)
(* Model of src/build.js (gatsby-parallel-runner): the dispatcher that     *)
(* forwards JOB_CREATED requests of the gatsby child process to external   *)
(* workers over Pub/Sub (or a storage bucket for large envelopes), keeps   *)
(* the table jobsInProcess of pending completion callbacks, and reports    *)
(* JOB_COMPLETED / JOB_FAILED back to the gatsby process.                  *)
(*                                                                         *)
(* Node runs every callback to its next await without interruption, so     *)
(* each action below is one such run-to-completion segment.                *)
(***************************************************************************)
EXTENDS Integers, FiniteSets, Sequences, TLC

----------------------------------------------------------------------------
(* Bounds of the model *)

MaxReq == 2          \* JOB_CREATED messages received from gatsby
NumIds == 2          \* distinct job ids the producer and the workers use
MaxResp == 3         \* worker messages delivered by the subscription

(* Program constants *)

MAX_PUB_SUB_SIZE == 5242880     \* 1024 * 1024 * 5

----------------------------------------------------------------------------
(* Value domains *)

Reqs == 1..MaxReq
Ids == 1..NumIds
NoJob == 0                      \* jobsInProcess has no entry for the id

\* MESSAGE_TYPES that matter here; "OTHER" stands for every other type a
\* worker message can carry (LOG_ACTION, ACTIVITY_*, garbage).
JOB_COMPLETED == "JOB_COMPLETED"
JOB_FAILED == "JOB_FAILED"
JOB_NOT_WHITELISTED == "JOB_NOT_WHITELISTED"
WorkerTypes == {JOB_COMPLETED, JOB_FAILED, "OTHER"}

\* msg.payload.name: the one registered job type and a name that JOB_TYPES
\* does not have.
JobNames == {"IMAGE_PROCESSING", "UNKNOWN"}

\* msg.inputPaths: absent, or an array of 0, 1 or 2 entries.
InputShapes == {"missing", "len0", "len1", "len2"}

\* pubsubMsg.length: sizes around the threshold.
EnvelopeSizes == {MAX_PUB_SUB_SIZE - 1, MAX_PUB_SUB_SIZE, MAX_PUB_SUB_SIZE + 1}

\* error carried by a JOB_FAILED sent to gatsby
Errors == {"none", "wrongInputs", "timeout", "worker"}

\* messages gatsbyProcess.send can be given
GatsbyMsgs ==
  [type : {JOB_COMPLETED, JOB_NOT_WHITELISTED}, id : Ids, error : {"none"}]
    \cup [type : {JOB_FAILED}, id : Ids, error : Errors \ {"none"}]

NoRequest == [id |-> 0, name |-> "", inputs |-> ""]

VARIABLES
  crashed,        \* the runner process died with an uncaught exception
  req,            \* req[r]: payload of the r-th JOB_CREATED (NoRequest before)
  nReq,           \* number of JOB_CREATED messages received
  pc,             \* pc[r]: where the processImage call of request r stands
  envSize,        \* envSize[r]: pubsubMsg.length of request r (0 before)
  jobsInProcess,  \* jobsInProcess[id]: request whose callback is stored, or NoJob
  timer,          \* timer[r]: "none", "armed", "fired"
  finalizing,     \* finalizing[r]: running invocations of r's callback
  published,      \* published[r]: publish calls on the worker topic for r
  saved,          \* saved[r]: set of object keys written to the bucket for r
  sent,           \* sent[m]: how often gatsbyProcess.send was given message m
  nResp,          \* worker messages handled so far
  invoked,        \* history: invoked[r] = invocations of r's callback
  respSeen,       \* history: respSeen[id] = a Completed/Failed for id was handled
  timeoutKind,    \* history: timeoutKind[r] = how r's timeout callback ended
  finFailed,      \* history: finFailed[r] = an invocation of r's callback failed
  earlyResp       \* history: earlyResp[r] = a Completed/Failed response found
                  \*   r's entry while r's publish / save was still pending

vars == <<crashed, req, nReq, pc, envSize, jobsInProcess,
          timer, finalizing, published, saved, sent, nResp, invoked, respSeen,
          timeoutKind, finFailed, earlyResp>>

----------------------------------------------------------------------------
(* Helpers *)

\* gatsbyProcess.send(m)
GatsbySend(m) == sent' = [sent EXCEPT ![m] = @ + 1]

Msg(t, i, e) == [type |-> t, id |-> i, error |-> e]

\* number of producer-visible outcomes sent for id i
Outcomes(i) ==
  LET ms == {m \in GatsbyMsgs : m.id = i}
      RECURSIVE Sum(_)
      Sum(S) == IF S = {} THEN 0
                ELSE LET m == CHOOSE x \in S : TRUE IN sent[m] + Sum(S \ {m})
  IN Sum(ms)

\* the keys of JOB_TYPES
Registry == {"IMAGE_PROCESSING"}

\* JOB_TYPES[msg.payload.name] is truthy
JobTypeFound(name) == name \in Registry

\* the guard of processImage: !msg.inputPaths || msg.inputPaths.length > 1
WrongInputPaths(inputs) == inputs \in {"missing", "len2"}

\* variant: an envelope of exactly the threshold size still goes to the bus
UsePubSub_Inclusive(size) == size <= MAX_PUB_SUB_SIZE

\* pubsubMsg.length < MAX_PUB_SUB_SIZE
UsePubSub(size) == size < MAX_PUB_SUB_SIZE

\* object key of a staged envelope: `event-${msg.id}`
EventKey(i) == <<"event", i>>

\* an async function rejected with nobody awaiting it: the runtime prints a
\* warning or terminates the process, depending on its unhandled-rejections
\* mode
UnhandledRejection == crashed' \in BOOLEAN

----------------------------------------------------------------------------
Init ==
  /\ crashed = FALSE
  /\ req = [r \in Reqs |-> NoRequest]
  /\ nReq = 0
  /\ pc = [r \in Reqs |-> "idle"]
  /\ envSize = [r \in Reqs |-> 0]
  /\ jobsInProcess = [i \in Ids |-> NoJob]
  /\ timer = [r \in Reqs |-> "none"]
  /\ finalizing = [r \in Reqs |-> 0]
  /\ published = [r \in Reqs |-> 0]
  /\ saved = [r \in Reqs |-> {}]
  /\ sent = [m \in GatsbyMsgs |-> 0]
  /\ nResp = 0
  /\ invoked = [r \in Reqs |-> 0]
  /\ respSeen = [i \in Ids |-> FALSE]
  /\ timeoutKind = [r \in Reqs |-> "none"]
  /\ finFailed = [r \in Reqs |-> FALSE]
  /\ earlyResp = [r \in Reqs |-> FALSE]

----------------------------------------------------------------------------
(* gatsbyProcess.on('message'), case JOB_CREATED, together with the        *)
(* synchronous head of processImage (up to `await fs.readFile`).           *)

JobCreated(i, name, inputs) ==
  LET r == nReq + 1 IN
  /\ ~crashed
  /\ nReq < MaxReq
  /\ nReq' = r
  /\ req' = [req EXCEPT ![r] = [id |-> i, name |-> name, inputs |-> inputs]]
  /\ IF ~JobTypeFound(name)
       THEN \* `JOB_NOT_WHITELISTED` is not declared: evaluating the argument
            \* of gatsbyProcess.send throws a ReferenceError in the listener
            /\ pc' = [pc EXCEPT ![r] = "notWhitelisted"]
            /\ crashed' = TRUE
            /\ UNCHANGED sent
     ELSE IF WrongInputPaths(inputs)
       THEN /\ pc' = [pc EXCEPT ![r] = "rejected"]
            /\ GatsbySend(Msg(JOB_FAILED, i, "wrongInputs"))
            /\ UNCHANGED crashed
     ELSE IF inputs = "len0"
       THEN \* msg.inputPaths[0] is undefined: `.path` throws a TypeError,
            \* which rejects the promise of the async function
            /\ pc' = [pc EXCEPT ![r] = "threw"]
            /\ UnhandledRejection
            /\ UNCHANGED sent
     ELSE   /\ pc' = [pc EXCEPT ![r] = "reading"]
            /\ UNCHANGED <<crashed, sent>>
  /\ UNCHANGED <<envSize, jobsInProcess, timer,
                 finalizing, published, saved, nResp, invoked, respSeen,
                 timeoutKind, finFailed, earlyResp>>

(* fs.readFile resolved: jobsInProcess.set, serialisation, transport       *)
(* selection and the start of publish / save.                              *)
ReadFileOk(r, size) ==
  /\ ~crashed
  /\ pc[r] = "reading"
  /\ envSize' = [envSize EXCEPT ![r] = size]
  /\ jobsInProcess' = [jobsInProcess EXCEPT ![req[r].id] = r]
  /\ IF UsePubSub(size)
       THEN /\ published' = [published EXCEPT ![r] = @ + 1]
            /\ UNCHANGED saved
       ELSE /\ saved' = [saved EXCEPT ![r] = @ \cup {EventKey(req[r].id)}]
            /\ UNCHANGED published
  /\ pc' = [pc EXCEPT ![r] = "sending"]
  /\ UNCHANGED <<crashed, req, nReq, timer, finalizing,
                 sent, nResp, invoked, respSeen, timeoutKind, finFailed, earlyResp>>

(* variant: the callback is registered before the file is read, so a failed *)
(* read leaves an entry behind                                              *)
ReadFileFail_KeepsEntry(r) ==
  /\ ~crashed
  /\ pc[r] = "reading"
  /\ pc' = [pc EXCEPT ![r] = "readFailed"]
  /\ jobsInProcess' = [jobsInProcess EXCEPT ![req[r].id] = r]
  /\ UnhandledRejection
  /\ UNCHANGED <<req, nReq, envSize,
                 timer, finalizing, published, saved, sent, nResp, invoked,
                 respSeen, timeoutKind, finFailed, earlyResp>>

(* fs.readFile rejected: the await is outside the try block *)
ReadFileFail(r) ==
  /\ ~crashed
  /\ pc[r] = "reading"
  /\ pc' = [pc EXCEPT ![r] = "readFailed"]
  /\ UnhandledRejection
  /\ UNCHANGED <<req, nReq, envSize, jobsInProcess,
                 timer, finalizing, published, saved, sent, nResp, invoked,
                 respSeen, timeoutKind, finFailed, earlyResp>>

(* publish / save resolved: setTimeout(..., MAX_JOB_TIME) *)
SendOk(r) ==
  /\ ~crashed
  /\ pc[r] = "sending"
  /\ pc' = [pc EXCEPT ![r] = "sent"]
  /\ timer' = [timer EXCEPT ![r] = "armed"]
  /\ UNCHANGED <<crashed, req, nReq, envSize,
                 jobsInProcess, finalizing, published, saved, sent, nResp,
                 invoked, respSeen, timeoutKind, finFailed, earlyResp>>

(* publish / save rejected: catch (err) { log.error(...) } *)
SendFail(r) ==
  /\ ~crashed
  /\ pc[r] = "sending"
  /\ pc' = [pc EXCEPT ![r] = "sendFailed"]
  /\ UNCHANGED <<crashed, req, nReq, envSize,
                 jobsInProcess, timer, finalizing, published, saved, sent,
                 nResp, invoked, respSeen, timeoutKind, finFailed, earlyResp>>

(* variant: the timeout reports the failure but leaves the entry in place *)
TimeoutFire_KeepsEntry(r) ==
  /\ ~crashed
  /\ timer[r] = "armed"
  /\ timer' = [timer EXCEPT ![r] = "fired"]
  /\ IF jobsInProcess[req[r].id] # NoJob
       THEN /\ GatsbySend(Msg(JOB_FAILED, req[r].id, "timeout"))
            /\ timeoutKind' = [timeoutKind EXCEPT ![r] =
                 IF respSeen[req[r].id] THEN "reported" ELSE "reportedFirst"]
            /\ UNCHANGED jobsInProcess
       ELSE /\ UNCHANGED <<jobsInProcess, sent>>
            /\ timeoutKind' = [timeoutKind EXCEPT ![r] = "noop"]
  /\ UNCHANGED <<crashed, req, nReq, pc, envSize,
                 finalizing, published, saved, nResp, invoked, respSeen,
                 finFailed, earlyResp>>

(* the callback given to setTimeout *)
TimeoutFire(r) ==
  /\ ~crashed
  /\ timer[r] = "armed"
  /\ timer' = [timer EXCEPT ![r] = "fired"]
  /\ IF jobsInProcess[req[r].id] # NoJob
       THEN /\ jobsInProcess' = [jobsInProcess EXCEPT ![req[r].id] = NoJob]
            /\ GatsbySend(Msg(JOB_FAILED, req[r].id, "timeout"))
            /\ timeoutKind' = [timeoutKind EXCEPT ![r] =
                 IF respSeen[req[r].id] THEN "reported" ELSE "reportedFirst"]
       ELSE /\ UNCHANGED <<jobsInProcess, sent>>
            /\ timeoutKind' = [timeoutKind EXCEPT ![r] = "noop"]
  /\ UNCHANGED <<crashed, req, nReq, pc, envSize,
                 finalizing, published, saved, nResp, invoked, respSeen,
                 finFailed, earlyResp>>

(* variant: the JOB_FAILED case forwards the failure without looking the id up *)
pubsubMessageHandler_FailedUnchecked(t, i) ==
  /\ ~crashed
  /\ nResp < MaxResp
  /\ nResp' = nResp + 1
  /\ respSeen' = IF t \in {JOB_COMPLETED, JOB_FAILED}
                   THEN [respSeen EXCEPT ![i] = TRUE] ELSE respSeen
  /\ CASE t = JOB_COMPLETED /\ jobsInProcess[i] # NoJob ->
            \* callback = jobsInProcess.get(id); callback(payload): the
            \* callback runs up to its await and returns a pending promise
            /\ finalizing' = [finalizing EXCEPT ![jobsInProcess[i]] = @ + 1]
            /\ invoked' = [invoked EXCEPT ![jobsInProcess[i]] = @ + 1]
            /\ UNCHANGED <<jobsInProcess, sent>>
       [] t = JOB_FAILED ->
            /\ jobsInProcess' = [jobsInProcess EXCEPT ![i] = NoJob]
            /\ GatsbySend(Msg(JOB_FAILED, i, "worker"))
            /\ UNCHANGED <<finalizing, invoked>>
       [] OTHER ->
            UNCHANGED <<jobsInProcess, sent, finalizing, invoked>>
  /\ earlyResp' = IF /\ t \in {JOB_COMPLETED, JOB_FAILED}
                     /\ jobsInProcess[i] # NoJob
                     /\ pc[jobsInProcess[i]] = "sending"
                    THEN [earlyResp EXCEPT ![jobsInProcess[i]] = TRUE]
                    ELSE earlyResp
  /\ UNCHANGED <<crashed, req, nReq, pc, envSize, timer,
                 published, saved, timeoutKind, finFailed>>

(* variant: the JOB_FAILED case is the default of the switch *)
pubsubMessageHandler_DefaultFails(t, i) ==
  /\ ~crashed
  /\ nResp < MaxResp
  /\ nResp' = nResp + 1
  /\ respSeen' = IF t \in {JOB_COMPLETED, JOB_FAILED}
                   THEN [respSeen EXCEPT ![i] = TRUE] ELSE respSeen
  /\ CASE t = JOB_COMPLETED /\ jobsInProcess[i] # NoJob ->
            \* callback = jobsInProcess.get(id); callback(payload): the
            \* callback runs up to its await and returns a pending promise
            /\ finalizing' = [finalizing EXCEPT ![jobsInProcess[i]] = @ + 1]
            /\ invoked' = [invoked EXCEPT ![jobsInProcess[i]] = @ + 1]
            /\ UNCHANGED <<jobsInProcess, sent>>
       [] t # JOB_COMPLETED /\ jobsInProcess[i] # NoJob ->
            /\ jobsInProcess' = [jobsInProcess EXCEPT ![i] = NoJob]
            /\ GatsbySend(Msg(JOB_FAILED, i, "worker"))
            /\ UNCHANGED <<finalizing, invoked>>
       [] OTHER ->
            UNCHANGED <<jobsInProcess, sent, finalizing, invoked>>
  /\ earlyResp' = IF /\ t \in {JOB_COMPLETED, JOB_FAILED}
                     /\ jobsInProcess[i] # NoJob
                     /\ pc[jobsInProcess[i]] = "sending"
                    THEN [earlyResp EXCEPT ![jobsInProcess[i]] = TRUE]
                    ELSE earlyResp
  /\ UNCHANGED <<crashed, req, nReq, pc, envSize, timer,
                 published, saved, timeoutKind, finFailed>>

(* pubsubMessageHandler(msg) for a worker message of type t about id i *)
pubsubMessageHandler(t, i) ==
  /\ ~crashed
  /\ nResp < MaxResp
  /\ nResp' = nResp + 1
  /\ respSeen' = IF t \in {JOB_COMPLETED, JOB_FAILED}
                   THEN [respSeen EXCEPT ![i] = TRUE] ELSE respSeen
  /\ CASE t = JOB_COMPLETED /\ jobsInProcess[i] # NoJob ->
            \* callback = jobsInProcess.get(id); callback(payload): the
            \* callback runs up to its await and returns a pending promise
            /\ finalizing' = [finalizing EXCEPT ![jobsInProcess[i]] = @ + 1]
            /\ invoked' = [invoked EXCEPT ![jobsInProcess[i]] = @ + 1]
            /\ UNCHANGED <<jobsInProcess, sent>>
       [] t = JOB_FAILED /\ jobsInProcess[i] # NoJob ->
            /\ jobsInProcess' = [jobsInProcess EXCEPT ![i] = NoJob]
            /\ GatsbySend(Msg(JOB_FAILED, i, "worker"))
            /\ UNCHANGED <<finalizing, invoked>>
       [] OTHER ->
            UNCHANGED <<jobsInProcess, sent, finalizing, invoked>>
  /\ earlyResp' = IF /\ t \in {JOB_COMPLETED, JOB_FAILED}
                     /\ jobsInProcess[i] # NoJob
                     /\ pc[jobsInProcess[i]] = "sending"
                    THEN [earlyResp EXCEPT ![jobsInProcess[i]] = TRUE]
                    ELSE earlyResp
  /\ UNCHANGED <<crashed, req, nReq, pc, envSize, timer,
                 published, saved, timeoutKind, finFailed>>

(* variant: a finished job empties the whole table *)
FinalizeOk_ClearsTable(r) ==
  /\ ~crashed
  /\ finalizing[r] > 0
  /\ finalizing' = [finalizing EXCEPT ![r] = @ - 1]
  /\ GatsbySend(Msg(JOB_COMPLETED, req[r].id, "none"))
  /\ jobsInProcess' = [i \in Ids |-> NoJob]
  /\ UNCHANGED <<crashed, req, nReq, pc, envSize, timer,
                 published, saved, nResp, invoked, respSeen, timeoutKind,
                 finFailed, earlyResp>>

(* the stored callback after `await Promise.all(...)` resolved *)
FinalizeOk(r) ==
  /\ ~crashed
  /\ finalizing[r] > 0
  /\ finalizing' = [finalizing EXCEPT ![r] = @ - 1]
  /\ GatsbySend(Msg(JOB_COMPLETED, req[r].id, "none"))
  /\ jobsInProcess' = [jobsInProcess EXCEPT ![req[r].id] = NoJob]
  /\ UNCHANGED <<crashed, req, nReq, pc, envSize, timer,
                 published, saved, nResp, invoked, respSeen, timeoutKind,
                 finFailed, earlyResp>>

(* variant: the success message is sent although writing the files failed *)
FinalizeFail_Reports(r) ==
  /\ ~crashed
  /\ finalizing[r] > 0
  /\ finalizing' = [finalizing EXCEPT ![r] = @ - 1]
  /\ finFailed' = [finFailed EXCEPT ![r] = TRUE]
  /\ GatsbySend(Msg(JOB_COMPLETED, req[r].id, "none"))
  /\ UNCHANGED <<crashed, req, nReq, pc, envSize,
                 jobsInProcess, timer, published, saved, nResp, invoked,
                 respSeen, timeoutKind, earlyResp>>

(* the stored callback after mkdirp / writeFile rejected: log.error only *)
FinalizeFail(r) ==
  /\ ~crashed
  /\ finalizing[r] > 0
  /\ finalizing' = [finalizing EXCEPT ![r] = @ - 1]
  /\ finFailed' = [finFailed EXCEPT ![r] = TRUE]
  /\ UNCHANGED <<crashed, req, nReq, pc, envSize,
                 jobsInProcess, timer, published, saved, sent, nResp, invoked,
                 respSeen, timeoutKind, earlyResp>>

----------------------------------------------------------------------------
\* ids of the requests received so far
UsedIds == {req[r].id : r \in 1..nReq}

Internal ==
  \/ \E r \in Reqs, size \in EnvelopeSizes : ReadFileOk(r, size)
  \/ \E r \in Reqs : ReadFileFail(r)
  \/ \E r \in Reqs : SendOk(r)
  \/ \E r \in Reqs : SendFail(r)
  \/ \E r \in Reqs : TimeoutFire(r)
  \/ \E t \in WorkerTypes, i \in Ids : pubsubMessageHandler(t, i)
  \/ \E r \in Reqs : FinalizeOk(r)
  \/ \E r \in Reqs : FinalizeFail(r)

\* the producer assigns a fresh id to every job
Next ==
  \/ \E i \in Ids \ UsedIds, name \in JobNames, inputs \in InputShapes :
       JobCreated(i, name, inputs)
  \/ Internal

Spec == Init /\ [][Next]_vars

\* a producer that breaks the contract and may send a JOB_CREATED whose id
\* an earlier request already carried
NextReuse ==
  \/ \E i \in Ids, name \in JobNames, inputs \in InputShapes :
       JobCreated(i, name, inputs)
  \/ Internal

SpecReuse == Init /\ [][NextReuse]_vars

\* timers fire and every started I/O operation settles (resolves or rejects);
\* nothing obliges the producer to send jobs or the workers to answer
Fairness ==
  /\ \A r \in Reqs : WF_vars((\E size \in EnvelopeSizes : ReadFileOk(r, size))
                                \/ ReadFileFail(r))
  /\ \A r \in Reqs : WF_vars(SendOk(r) \/ SendFail(r))
  /\ \A r \in Reqs : WF_vars(TimeoutFire(r))
  /\ \A r \in Reqs : WF_vars(FinalizeOk(r) \/ FinalizeFail(r))

FairSpec == Spec /\ Fairness

----------------------------------------------------------------------------
(* Shorthands used by the properties *)

IdOf(r) == req[r].id
Received(r) == pc[r] # "idle"

\* a Completed or Failed worker response found the entry of request r
Answered(r) ==
  \/ invoked[r] > 0
  \/ Received(r) /\ sent[Msg(JOB_FAILED, IdOf(r), "worker")] > 0

----------------------------------------------------------------------------
\* C1: for every job id the producer is sent at most one outcome message
\* (JOB_COMPLETED or JOB_FAILED), whatever the interleaving of worker
\* responses, duplicates, finalization steps and timeouts.
C1_AtMostOneOutcome == \A i \in Ids : Outcomes(i) <= 1

\* C2: once a Completed or Failed response has found the entry of a job, the
\* job is resolved exactly once, and the firing of its timeout afterwards
\* changes neither the table nor what the producer was sent.
C2_ResponseDefusesTimeout ==
  [][\A r \in Reqs :
       /\ (Answered(r) /\ TimeoutFire(r)) => UNCHANGED <<jobsInProcess, sent>>
       /\ (Answered(r)' /\ timer'[r] = "fired") =>
             (jobsInProcess'[IdOf(r)] = NoJob /\ Outcomes(IdOf(r))' <= 1)]_vars

\* C3: when the timeout of a job fires before any Completed or Failed
\* response for its id was handled, it removes the entry and sends the one
\* JOB_FAILED (timeout) the producer ever gets for the id; from then on, and
\* whatever responses for the id are handled, no callback of the job is ever
\* invoked, no further outcome is sent and the id stays out of the table.
C3_TimeoutThenDiscard ==
  \A r \in Reqs :
    /\ (timer[r] = "fired" /\ ~respSeen[IdOf(r)]) =>
          timeoutKind[r] = "reportedFirst"
    /\ timeoutKind[r] = "reportedFirst" =>
          /\ sent[Msg(JOB_FAILED, IdOf(r), "timeout")] = 1
          /\ Outcomes(IdOf(r)) = 1
          /\ jobsInProcess[IdOf(r)] = NoJob
          /\ invoked[r] = 0 /\ finalizing[r] = 0

\* a timeout reported the failure first and a response for the id came later
C3_Witness ==
  \E r \in Reqs : /\ timeoutKind[r] = "reportedFirst"
                   /\ respSeen[IdOf(r)]
                   /\ Outcomes(IdOf(r)) = 1

\* C4: when the publish or the bucket save of a validated job rejects, the
\* producer is sent a JOB_FAILED for the id, and afterwards the table holds
\* no entry for the id and no timeout is armed for it.
C4_SendFailureReported ==
  \A r \in Reqs :
    pc[r] = "sendFailed" =>
      /\ \E e \in Errors \ {"none"} : sent[Msg(JOB_FAILED, IdOf(r), e)] > 0
      /\ jobsInProcess[IdOf(r)] = NoJob
      /\ timer[r] = "none"

\* everything the runner itself does for request r has run to its end: no
\* read or send is pending, no timeout is armed, no callback is running
Settled(r) ==
  /\ Received(r)
  /\ pc[r] \notin {"reading", "sending"}
  /\ timer[r] # "armed"
  /\ finalizing[r] = 0

\* C5: every JOB_CREATED received results in an outcome message for its id
\* (JOB_COMPLETED, JOB_FAILED or JOB_NOT_WHITELISTED) whatever the worker
\* does: at the latest when the reads, sends, callbacks and the timeout of
\* the request have all run, an outcome for its id has been sent.
C5_EveryJobGetsOutcome ==
  \A r \in Reqs : Settled(r) => Outcomes(IdOf(r)) > 0

\* C6: an IMAGE_PROCESSING request whose inputPaths is missing, empty or
\* longer than one is answered with JOB_FAILED in the step that receives it,
\* and nothing else is ever done for it: no read, no entry, no publish, no
\* save, no timer.
C6_WrongInputCountRejected ==
  \A r \in Reqs :
    (Received(r) /\ req[r].name = "IMAGE_PROCESSING" /\ req[r].inputs # "len1")
      => /\ pc[r] = "rejected"
         /\ sent[Msg(JOB_FAILED, IdOf(r), "wrongInputs")] = 1
         /\ jobsInProcess[IdOf(r)] = NoJob
         /\ published[r] = 0 /\ saved[r] = {}
         /\ timer[r] = "none"

\* C7: a request whose job-type name is not registered is answered with a
\* JOB_NOT_WHITELISTED carrying its id in the step that receives it; no entry
\* is created and nothing is published or saved.
C7_UnknownTypeNotPermitted ==
  \A r \in Reqs :
    (Received(r) /\ req[r].name \notin Registry)
      => /\ sent[Msg(JOB_NOT_WHITELISTED, IdOf(r), "none")] = 1
         /\ jobsInProcess[IdOf(r)] = NoJob
         /\ published[r] = 0 /\ saved[r] = {}

\* C8: a job whose envelope was serialised used exactly one transport, fixed
\* by the envelope size alone: one publish and no save below 5,242,880 bytes,
\* otherwise no publish and one object saved under event-<id>; a job that
\* never got that far used none.
C8_TransportBySize ==
  \A r \in Reqs :
    IF pc[r] \in {"sending", "sent", "sendFailed"}
      THEN IF envSize[r] < 5242880
             THEN published[r] = 1 /\ saved[r] = {}
             ELSE published[r] = 0 /\ saved[r] = {<<"event", IdOf(r)>>}
      ELSE published[r] = 0 /\ saved[r] = {}

\* an envelope of exactly the threshold size went to the bucket while another
\* job, one byte smaller, went to the bus
C8_Witness ==
  \E r, q \in Reqs :
    /\ envSize[r] = 5242880 /\ saved[r] = {<<"event", IdOf(r)>>}
    /\ published[r] = 0
    /\ envSize[q] = 5242879 /\ published[q] = 1 /\ saved[q] = {}

\* C9: after the only invocation of a job's callback has failed, no step
\* sends an outcome for the id, and the firing of the job's timeout changes
\* neither the table nor what the producer was sent.
C9_FinalizationFailureSilent ==
  [][\A r \in Reqs :
       (finFailed[r] /\ invoked[r] = 1 /\ finalizing[r] = 0) =>
          /\ Outcomes(IdOf(r))' = Outcomes(IdOf(r))
          /\ TimeoutFire(r) => UNCHANGED <<jobsInProcess, sent>>]_vars

\* C10: while an invocation of a job's callback is running the id has no
\* entry in the table, and no callback is invoked more than once.
C10_AtomicResolve ==
  \A r \in Reqs :
    /\ finalizing[r] > 0 => jobsInProcess[IdOf(r)] = NoJob
    /\ invoked[r] <= 1

C12_DuplicateIdRefused ==
  [][\A r \in Reqs, size \in EnvelopeSizes :
       (/\ pc[r] = "reading"
        /\ jobsInProcess[IdOf(r)] # NoJob
        /\ ReadFileOk(r, size)) =>
          UNCHANGED <<jobsInProcess, published, saved>>]_vars

\* C13: handling a Failed worker response for an id that has an entry removes
\* that entry and sends one JOB_FAILED carrying the worker's payload, touching
\* nothing else of the table; for an id without an entry it sends nothing and
\* leaves the table unchanged. Hence the producer never gets more than one
\* worker-reported JOB_FAILED for an id.
C13_FailedRouting ==
  [][\A i \in Ids :
       /\ pubsubMessageHandler(JOB_FAILED, i) =>
            IF jobsInProcess[i] # NoJob
              THEN /\ jobsInProcess' = [jobsInProcess EXCEPT ![i] = NoJob]
                   /\ sent' = [sent EXCEPT
                                 ![Msg(JOB_FAILED, i, "worker")] = @ + 1]
              ELSE UNCHANGED <<jobsInProcess, sent>>
       /\ sent'[Msg(JOB_FAILED, i, "worker")] <= 1]_vars

\* two Failed responses for a dispatched id were handled and one JOB_FAILED
\* with the worker's payload was sent
C13_Witness ==
  \E r \in Reqs :
    /\ Received(r)
    /\ nResp >= 2 /\ invoked[r] = 0 /\ timer[r] # "fired"
    /\ respSeen[IdOf(r)] /\ \A j \in Ids \ {IdOf(r)} : ~respSeen[j]
    /\ sent[Msg(JOB_FAILED, IdOf(r), "worker")] = 1

\* C14: handling a worker message whose type is neither JOB_COMPLETED nor
\* JOB_FAILED changes nothing but the count of handled messages: the table,
\* the running callbacks, the messages sent to the producer and the state of
\* every request stay as they are, and the process does not die, whatever id
\* the message carries and whatever the table holds.
C14_UnknownTypeIgnored ==
  [][\A i \in Ids :
       pubsubMessageHandler("OTHER", i) =>
         UNCHANGED <<jobsInProcess, sent, invoked, finalizing, crashed, pc,
                     timer, respSeen>>]_vars

\* only messages of other types were handled so far, and the table holds an
\* entry that a JOB_FAILED would have removed
C14_Witness ==
  /\ nResp > 0
  /\ \A j \in Ids : ~respSeen[j]
  /\ \E i \in Ids : jobsInProcess[i] # NoJob /\ pc[jobsInProcess[i]] = "sent"
  /\ ~crashed

\* C15: every entry placed in the table is removed again: once all that the
\* runner does for the received requests has run to its end (reads, sends,
\* callbacks, timeouts), the table is empty, also for jobs whose send failed
\* and jobs whose finalization failed.
C15_TableDrains ==
  (\A r \in Reqs : Received(r) => Settled(r)) =>
     \A i \in Ids : jobsInProcess[i] = NoJob

\* C16: the JOB_COMPLETED messages sent for an id never outnumber the
\* invocations of that job's callback that have finished writing their files
\* without error; every such invocation was started by a Completed worker
\* message for the same id, so an id that received none, or that no request
\* carries, gets no JOB_COMPLETED.
C16_CompletedOnlyAfterFinalization ==
  /\ \A r \in Reqs :
       Received(r) =>
         /\ sent[Msg(JOB_COMPLETED, IdOf(r), "none")]
              <= invoked[r] - finalizing[r] - (IF finFailed[r] THEN 1 ELSE 0)
         /\ invoked[r] > 0 => respSeen[IdOf(r)]
  /\ \A i \in Ids \ UsedIds : sent[Msg(JOB_COMPLETED, i, "none")] = 0

\* a job's callback ran once, wrote its files, and JOB_COMPLETED was sent
C16_Witness ==
  \E r \in Reqs :
    /\ Received(r)
    /\ invoked[r] = 1 /\ finalizing[r] = 0 /\ ~finFailed[r]
    /\ sent[Msg(JOB_COMPLETED, IdOf(r), "none")] = 1

\* a step taken on behalf of job id i: the receipt of its request, a segment
\* of its processImage call, its timeout, a run of its callback, or the
\* handling of a worker message that carries the id
EventOf(i) ==
  \/ \E name \in JobNames, inputs \in InputShapes : JobCreated(i, name, inputs)
  \/ \E t \in WorkerTypes : pubsubMessageHandler(t, i)
  \/ \E r \in Reqs :
       /\ Received(r) /\ IdOf(r) = i
       /\ \/ \E size \in EnvelopeSizes : ReadFileOk(r, size)
          \/ ReadFileFail(r)
          \/ SendOk(r)
          \/ SendFail(r)
          \/ TimeoutFire(r)
          \/ FinalizeOk(r)
          \/ FinalizeFail(r)

\* C17: a step taken on behalf of one job id leaves the table entry of every
\* other id as it is and sends no message about any other id to the producer.
C17_NoInterference ==
  [][\A i \in Ids :
       EventOf(i) =>
         \A j \in Ids \ {i} :
           /\ jobsInProcess'[j] = jobsInProcess[j]
           /\ \A m \in GatsbyMsgs : m.id = j => sent'[m] = sent[m]]_vars

\* two jobs are in the table at once, the callback of one is running and its
\* timeout has fired, and the other is untouched
C17_Witness ==
  \E r, q \in Reqs :
    /\ r # q /\ Received(r) /\ Received(q)
    /\ jobsInProcess[IdOf(q)] = q /\ Outcomes(IdOf(q)) = 0
    /\ timer[r] = "fired" /\ finalizing[r] > 0 /\ Outcomes(IdOf(r)) = 1

\* C18: a Completed or Failed response handled while the job's publish or
\* save is still pending is not lost: while the send is pending the entry is
\* in the table unless such a response has already taken it, the response
\* finds the entry and resolves the job, and the timeout armed afterwards
\* finds no entry when it fires and reports nothing.
C18_EarlyResponseResolves ==
  \A r \in Reqs :
    /\ (pc[r] = "sending" /\ jobsInProcess[IdOf(r)] # r) => earlyResp[r]
    /\ earlyResp[r] => Answered(r)
    /\ (earlyResp[r] /\ timer[r] = "fired") => timeoutKind[r] = "noop"

====
